---------------------------- MODULE Spec2Model ----------------------------
(***************************************************************************)
(* A model of the Seoul subway station dashboard (src/main.py).            *)
(*                                                                         *)
(* Text is modelled as a sequence of one-character strings.  The Korean    *)
(* suffix character removed by norm (U+C5ED, "station") is written "K".    *)
(* A missing cell (None / NaN) is the one-element sequence NULL, which no  *)
(* text can equal because every element of a text is one character long.   *)
(*                                                                         *)
(* The program has five separately checkable parts, each with its own      *)
(* specification over the shared variables:                                *)
(*   SpecFetch   the paginated fetcher fetch_xml_full                      *)
(*   SpecCache   load_all under st.cache_data(ttl=3600)                    *)
(*   SpecNorm    the pure function norm                                    *)
(*   SpecLength  the length lambda of the depth section                    *)
(*   Spec, SpecResolve, SpecDrift                                          *)
(*               the script's query pass (build_map, resolver, the four    *)
(*               sections) over three families of upstream data            *)
(***************************************************************************)
EXTENDS Integers, Sequences, FiniteSets, TLC

VARIABLES
    \* fetch_xml_full
    total, chunk, start, reqs, rows, fpc,
    \* norm applied twice
    name, once, twice, npc,
    \* the length lambda
    v, out,
    \* st.cache_data around load_all
    now, epoch, cache, lpc, partial, round, ret, net,
    \* the script's query pass
    upstream, query, key, nmap, path, targets, show, rendered, raised

fetchVars   == <<total, chunk, start, reqs, rows, fpc>>
normVars    == <<name, once, twice, npc>>
lengthVars  == <<v, out>>
cacheVars   == <<now, epoch, cache, lpc, partial, round, ret, net>>
sessionVars ==
    <<upstream, query, key, nmap, path, targets, show, rendered, raised>>
vars == <<fetchVars, normVars, lengthVars, cacheVars, sessionVars>>

\* What a step of one part leaves alone.
OnlyFetch   == UNCHANGED <<normVars, lengthVars, cacheVars, sessionVars>>
OnlyNorm    == UNCHANGED <<fetchVars, lengthVars, cacheVars, sessionVars>>
OnlyLength  == UNCHANGED <<fetchVars, normVars, cacheVars, sessionVars>>
OnlyCache   == UNCHANGED <<fetchVars, normVars, lengthVars, sessionVars>>
OnlySession ==
    UNCHANGED <<fetchVars, normVars, lengthVars,
                now, epoch, lpc, partial, round, ret, net>>

(***************************************************************************)
(* Bounds of the model.                                                    *)
(***************************************************************************)
MaxTotal == 7
MaxChunk == 4
MaxLen == 4
MaxDigits == 5
MaxTicks == 3
TickSeconds == 1800
MaxEpoch == 1
MaxRounds == 3
MaxRows == 2
MaxDriftRows == 2
MaxKeys == 2
MaxKeyLen == 2
MaxQueryLen == 3

(***************************************************************************)
(* Text helpers.                                                           *)
(***************************************************************************)
NULL == <<"None">>
NONE == [stamp |-> -1, bundle |-> <<>>]

Min(a, b) == IF a < b THEN a ELSE b

\* All texts over alphabet A of length at most n.
Texts(A, n) == UNION {[1..k -> A] : k \in 0..n}

SuffixChar == "K"
NL == "\n"
Whitespace == {" ", NL}

\* The index of the first element of s at or after i that lies in S, or 0.
RECURSIVE FirstIn(_, _, _)
FirstIn(s, i, S) ==
    IF i > Len(s) THEN 0
    ELSE IF s[i] \in S THEN i
    ELSE FirstIn(s, i + 1, S)

\* re.sub(r"\(.*?\)", "", s) scanning from index i: a match starts at a "("
\* and runs to the next ")" provided no newline lies between ("." does not
\* match a newline); matches are removed left to right, non-overlapping.
RECURSIVE SubParens(_, _)
SubParens(s, i) ==
    IF i > Len(s) THEN <<>>
    ELSE LET j == FirstIn(s, i + 1, {")", NL})
         IN  IF s[i] = "(" /\ j # 0 /\ s[j] = ")"
             THEN SubParens(s, j + 1)
             ELSE <<s[i]>> \o SubParens(s, i + 1)

\* str.replace(SuffixChar, "")
RemoveSuffixChar(s) == SelectSeq(s, LAMBDA c : c # SuffixChar)

RECURSIVE LStrip(_)
LStrip(s) ==
    IF s # <<>> /\ Head(s) \in Whitespace THEN LStrip(Tail(s)) ELSE s

RECURSIVE RStrip(_)
RStrip(s) ==
    IF s # <<>> /\ s[Len(s)] \in Whitespace
    THEN RStrip(SubSeq(s, 1, Len(s) - 1)) ELSE s

\* str.strip()
Strip(s) == LStrip(RStrip(s))

\* str(x): the text itself, or "None" for a missing value.
Str(x) == IF x = NULL THEN <<"N", "o", "n", "e">> ELSE x

\* A slip in norm: trimming before the suffix character is removed.
normStripFirst(x) == RemoveSuffixChar(Strip(SubParens(Str(x), 1)))

norm(x) == Strip(RemoveSuffixChar(SubParens(Str(x), 1)))

(***************************************************************************)
(* fetch_xml_full: the first request asks for row 1 and yields the         *)
(* declared total; the loop is range(2, total + 1, chunk).  The upstream   *)
(* holds `total` rows and serves the rows of the requested range.          *)
(***************************************************************************)
Served(s, e) == [i \in 1..(Min(e, total) - s + 1) |-> s + i - 1]

FetchInit ==
    /\ total \in 0..MaxTotal
    /\ chunk \in 1..MaxChunk
    /\ start = 0
    /\ reqs = <<>>
    /\ rows = <<>>
    /\ fpc = "first"

FetchIdle ==
    /\ total = 0 /\ chunk = 1 /\ start = 0
    /\ reqs = <<>> /\ rows = <<>> /\ fpc = "idle"

\* A slip in the page bound: the page runs one row too far.
PageEndLong(s) == Min(s + chunk, total)

PageEnd(s) == Min(s + chunk - 1, total)

FetchFirst ==
    /\ fpc = "first"
    /\ reqs' = <<<<1, 1>>>>
    /\ rows' = Served(1, 1)
    /\ start' = 2
    /\ fpc' = "loop"
    /\ UNCHANGED <<total, chunk>>
    /\ OnlyFetch

FetchPage ==
    /\ fpc = "loop"
    /\ start < total + 1
    /\ reqs' = Append(reqs, <<start, PageEnd(start)>>)
    /\ rows' = rows \o Served(start, PageEnd(start))
    /\ start' = start + chunk
    /\ UNCHANGED <<total, chunk, fpc>>
    /\ OnlyFetch

FetchReturn ==
    /\ fpc = "loop"
    /\ ~(start < total + 1)
    /\ fpc' = "done"
    /\ UNCHANGED <<total, chunk, start, reqs, rows>>
    /\ OnlyFetch

(***************************************************************************)
(* norm applied to an input and then to its own result.                    *)
(***************************************************************************)
NormChars == {"(", ")", SuffixChar, " ", NL, "a"}

NormInit ==
    /\ name \in Texts(NormChars, MaxLen)
    /\ once = <<>>
    /\ twice = <<>>
    /\ npc = "input"

NormIdle ==
    /\ name = <<>> /\ once = <<>> /\ twice = <<>> /\ npc = "idle"

NormOnce ==
    /\ npc = "input"
    /\ once' = norm(name)
    /\ npc' = "once"
    /\ UNCHANGED <<name, twice>>
    /\ OnlyNorm

NormTwice ==
    /\ npc = "once"
    /\ twice' = norm(once)
    /\ npc' = "twice"
    /\ UNCHANGED <<name, once>>
    /\ OnlyNorm

(***************************************************************************)
(* The length lambda of the depth section (line 119):                      *)
(*     f"{int(v)//1000} m" if str(v).isdigit() else "-"                    *)
(* str.isdigit accepts every character with the Unicode digit property;    *)
(* int accepts only decimal digits.  SuperTwo stands for U+00B2, a digit   *)
(* that is not a decimal.                                                  *)
(***************************************************************************)
SuperTwo == "^"
DecimalChars == {"0", "1", "5"}
DigitChars == DecimalChars \cup {SuperTwo}
LengthChars == DigitChars \cup {"-", "."}

DigitValue(c) == CASE c = "0" -> 0 [] c = "1" -> 1 [] c = "5" -> 5

\* str.isdigit(): at least one character, all of them digits.
IsDigit(s) == s # <<>> /\ \A i \in 1..Len(s) : s[i] \in DigitChars

\* Whether int(s) returns, for an s that passed isdigit.
IntParses(s) == \A i \in 1..Len(s) : s[i] \in DecimalChars

RECURSIVE IntValue(_)
IntValue(s) ==
    IF s = <<>> THEN 0
    ELSE 10 * IntValue(SubSeq(s, 1, Len(s) - 1)) + DigitValue(s[Len(s)])

Metres(n)   == [kind |-> "metres", n |-> n]
Placeholder == [kind |-> "placeholder", n |-> 0]
ValueError  == [kind |-> "ValueError", n |-> 0]

LengthCell(x) ==
    IF IsDigit(Str(x))
    THEN IF IntParses(Str(x)) THEN Metres(IntValue(Str(x)) \div 1000)
         ELSE ValueError
    ELSE Placeholder

LengthInit ==
    /\ v \in Texts(LengthChars, MaxDigits) \cup {NULL}
    /\ out = [kind |-> "pending", n |-> 0]

LengthIdle ==
    /\ v = <<>> /\ out = [kind |-> "idle", n |-> 0]

ApplyLength ==
    /\ out.kind = "pending"
    /\ out' = LengthCell(v)
    /\ UNCHANGED v
    /\ OnlyLength

(***************************************************************************)
(* load_all under @st.cache_data(ttl=3600) (lines 42-49).  The decorator   *)
(* keeps the returned tuple with the time it was stored; a call finds it   *)
(* while now < stamp + ttl, otherwise the body runs: four fetch_xml_full   *)
(* calls one after another, any of which may raise.  Each fetched table    *)
(* is tagged with the call (round) that fetched it and with the upstream   *)
(* data epoch it saw.                                                      *)
(***************************************************************************)
TTL == 3600

Endpoints ==
    <<"TbSubwayLineDetail", "SeoulMetroFaciInfo", "SmrtScnFcltsInfo",
      "TbSeoulmetroStConve">>

\* A slip in the cache: an entry that never expires.
CacheNeverStale(c, t) == c # NONE

CacheFresh(c, t) == c # NONE /\ t < c.stamp + TTL

CacheInit ==
    /\ now = 0
    /\ epoch = 0
    /\ cache = NONE
    /\ lpc = "idle"
    /\ partial = <<>>
    /\ round = 0
    /\ ret = <<>>
    /\ net = 0

CacheIdle ==
    /\ now = 0 /\ epoch = 0 /\ cache = NONE /\ lpc = "off"
    /\ partial = <<>> /\ round = 0 /\ ret = <<>> /\ net = 0

\* Time passes, between calls or while a fetch is under way.
Tick ==
    /\ lpc \in {"idle", "fetching"}
    /\ now < MaxTicks * TickSeconds
    /\ now' = now + TickSeconds
    /\ UNCHANGED <<epoch, cache, lpc, partial, round, ret, net>>
    /\ OnlyCache

\* The upstream service publishes new data.
UpstreamChange ==
    /\ lpc \in {"idle", "fetching"}
    /\ epoch < MaxEpoch
    /\ epoch' = epoch + 1
    /\ UNCHANGED <<now, cache, lpc, partial, round, ret, net>>
    /\ OnlyCache

LoadAllHit ==
    /\ lpc = "idle"
    /\ CacheFresh(cache, now)
    /\ ret' = cache.bundle
    /\ net' = 0
    /\ lpc' = "returned"
    /\ UNCHANGED <<now, epoch, cache, partial, round>>
    /\ OnlyCache

LoadAllMiss ==
    /\ lpc = "idle"
    /\ ~CacheFresh(cache, now)
    /\ round < MaxRounds
    /\ round' = round + 1
    /\ partial' = <<>>
    /\ net' = 0
    /\ lpc' = "fetching"
    /\ UNCHANGED <<now, epoch, cache, ret>>
    /\ OnlyCache

FetchDataset ==
    /\ lpc = "fetching"
    /\ Len(partial) < Len(Endpoints)
    /\ partial' = Append(partial, [endpoint |-> Endpoints[Len(partial) + 1],
                                   round |-> round, epoch |-> epoch])
    /\ net' = net + 1
    /\ UNCHANGED <<now, epoch, cache, lpc, round, ret>>
    /\ OnlyCache

\* requests.get or parse_xml raises: the call ends, nothing is stored.
FetchRaises ==
    /\ lpc = "fetching"
    /\ Len(partial) < Len(Endpoints)
    /\ partial' = <<>>
    /\ net' = net + 1
    /\ lpc' = "failed"
    /\ UNCHANGED <<now, epoch, cache, round, ret>>
    /\ OnlyCache

StoreAndReturn ==
    /\ lpc = "fetching"
    /\ Len(partial) = Len(Endpoints)
    /\ cache' = [stamp |-> now, bundle |-> partial]
    /\ ret' = partial
    /\ partial' = <<>>
    /\ lpc' = "returned"
    /\ UNCHANGED <<now, epoch, round, net>>
    /\ OnlyCache

\* The script run ends; the next rerun may call load_all again.
ScriptEnd ==
    /\ lpc \in {"returned", "failed"}
    /\ lpc' = "idle"
    /\ ret' = <<>>
    /\ net' = 0
    /\ UNCHANGED <<now, epoch, cache, partial, round>>
    /\ OnlyCache

(***************************************************************************)
(* difflib.get_close_matches(key, nmap.keys(), n=1, cutoff=0.4), line 78.  *)
(* SequenceMatcher.ratio() is 2*M/T: T the two lengths together, M the     *)
(* characters in the matching blocks, found by taking the longest common   *)
(* block (earliest in the first text, then earliest in the second) and     *)
(* recursing on what lies to its left and to its right.  No key is long    *)
(* enough (200) for the automatic junk heuristic.                          *)
(***************************************************************************)
CutoffNum == 4
CutoffDen == 10

RECURSIVE RunLen(_, _, _, _, _, _)
RunLen(a, i, ahi, b, j, bhi) ==
    IF i > ahi \/ j > bhi THEN 0
    ELSE IF a[i] # b[j] THEN 0
    ELSE 1 + RunLen(a, i + 1, ahi, b, j + 1, bhi)

SetMax(S) == CHOOSE x \in S : \A y \in S : y <= x
SetMin(S) == CHOOSE x \in S : \A y \in S : x <= y

RECURSIVE MatchCount(_, _, _, _, _, _)
MatchCount(a, alo, ahi, b, blo, bhi) ==
    IF alo > ahi \/ blo > bhi THEN 0
    ELSE LET k == SetMax({RunLen(a, i, ahi, b, j, bhi) :
                             i \in alo..ahi, j \in blo..bhi})
         IN  IF k = 0 THEN 0
             ELSE LET i == SetMin({x \in alo..ahi : \E y \in blo..bhi :
                                      RunLen(a, x, ahi, b, y, bhi) = k})
                      j == SetMin({y \in blo..bhi :
                                      RunLen(a, i, ahi, b, y, bhi) = k})
                  IN  k + MatchCount(a, alo, i - 1, b, blo, j - 1)
                        + MatchCount(a, i + k, ahi, b, j + k, bhi)

\* ratio() as the fraction num/den.
Ratio(a, b) ==
    IF Len(a) + Len(b) = 0 THEN [num |-> 1, den |-> 1]
    ELSE [num |-> 2 * MatchCount(a, 1, Len(a), b, 1, Len(b)),
          den |-> Len(a) + Len(b)]

RatioLess(r, q) == r.num * q.den < q.num * r.den
ClearsCutoff(r) == r.num * CutoffDen >= CutoffNum * r.den

\* Code points, for Python's ordering of str.
CharCode(c) ==
    CASE c = NL -> 10 [] c = " " -> 32 [] c = "(" -> 40 [] c = ")" -> 41
      [] c = "2" -> 50 [] c = "a" -> 97 [] c = "b" -> 98 [] c = "s" -> 115
      [] c = "t" -> 116 [] c = "z" -> 122 [] c = SuffixChar -> 50669

RECURSIVE TextLess(_, _)
TextLess(x, y) ==
    IF y = <<>> THEN FALSE
    ELSE IF x = <<>> THEN TRUE
    ELSE IF Head(x) # Head(y) THEN CharCode(Head(x)) < CharCode(Head(y))
    ELSE TextLess(Tail(x), Tail(y))

\* The tuple order (ratio, text) that heapq.nlargest uses, score[x] being
\* the ratio of x.
ScoredLess(score, x, y) ==
    \/ RatioLess(score[x], score[y])
    \/ /\ ~RatioLess(score[y], score[x])
       /\ TextLess(x, y)

\* The largest element of `result` in that order, as a list of one.
Largest(score, result) ==
    IF result = {} THEN <<>>
    ELSE <<CHOOSE x \in result :
             \A y \in result \ {x} : ScoredLess(score, y, x)>>

\* A slip in the fallback: the candidate filter left out.
get_close_matches_nocutoff(word, possibilities) ==
    LET score == [x \in possibilities |-> Ratio(x, word)]
    IN  Largest(score, possibilities)

get_close_matches(word, possibilities) ==
    LET score == [x \in possibilities |-> Ratio(x, word)]
    IN  Largest(score, {x \in possibilities : ClearsCutoff(score[x])})

(***************************************************************************)
(* Tables.  A table is the sequence of the rows fetch_xml_full collected;  *)
(* a row maps the element names it came with to their text (NULL for an    *)
(* empty element).  pd.DataFrame(rows) has the union of the rows' keys as  *)
(* columns and NaN (NULL) where a row lacks a key.  The bundle load_all    *)
(* returns is <<df_close, df_status, df_depth, df_conv>>.                  *)
(***************************************************************************)
Range(f) == {f[i] : i \in DOMAIN f}

columns(df) == UNION {DOMAIN df[i] : i \in 1..Len(df)}
Cell(row, c) == IF c \in DOMAIN row THEN row[c] ELSE NULL
Project(df, cols) == [i \in 1..Len(df) |-> [c \in cols |-> Cell(df[i], c)]]

NameColumns == {"STN_NM", "SBWY_STNS_NM", "STATION_NAME"}

\* df[col].dropna() as a set
dropna(df, col) == {Cell(df[i], col) : i \in 1..Len(df)} \ {NULL}

\* The set `raw` of build_map, lines 56-60.
RawNamesOf(df) ==
    UNION {dropna(df, col) : col \in NameColumns \cap columns(df)}

RawNames(dfs) == UNION {RawNamesOf(dfs[t]) : t \in 1..Len(dfs)}

\* The lists of the elements of S, each once.
Orderings(S) ==
    {f \in [1..Cardinality(S) -> S] :
        \A i, j \in 1..Cardinality(S) : i # j => f[i] # f[j]}

\* The maps that send each key of keyOf to a list of the names with that
\* key.  `for r in raw` meets the elements of the set in hash order, which
\* is any order, so each list may come out in any order, independently.
Grouped(raw, keyOf) ==
    LET keys == {keyOf[r] : r \in raw}
        group(k) == {r \in raw : keyOf[r] = k}
        lists == UNION {Orderings(group(k)) : k \in keys}
    IN  {m \in [keys -> lists] : \A k \in keys : Range(m[k]) = group(k)}

\* A slip in build_map: the raw name itself used as the key.
build_map_rawkey(dfs) ==
    Grouped(RawNames(dfs), [r \in RawNames(dfs) |-> r])

\* build_map, lines 55-64: every map it may return.
build_map(dfs) ==
    Grouped(RawNames(dfs), [r \in RawNames(dfs) |-> norm(r)])

\* Lines 75-79: the branch the resolver takes, and the targets it yields.
Resolve(m, k) ==
    IF k \in DOMAIN m THEN [path |-> "exact", targets |-> m[k]]
    ELSE LET close == get_close_matches(k, DOMAIN m)
         IN  IF close # <<>>
             THEN [path |-> "fuzzy", targets |-> m[close[1]]]
             ELSE [path |-> "none", targets |-> <<>>]

\* A slip at line 81: the empty result not checked.
NotFoundIgnored(tg) == FALSE

NotFound(tg) == tg = <<>>

(***************************************************************************)
(* The four sections, lines 87-134.  Each yields the elements it renders   *)
(* and the exception it ends with ("none" when it returns).                *)
(***************************************************************************)
Usable == <<"u", "s", "a", "b", "l", "e">>
Broken == <<"b", "r", "o", "k", "e", "n">>
Yes == <<"Y">>
No == <<"N">>
Filler == <<"v">>

ClosureShown == {"CLSG_PLC", "BGNG_YMD", "END_YMD", "RPLC_PATH"}
StatusShown == {"ELVTR_NM", "OPR_SEC", "INSTL_PSTN", "USE_YN"}
DepthShown == {"EQPMNT", "NO", "PLF_PBADMS", "OPR_SEC"}
AmenityCodes ==
    <<"EL", "WL", "PARKING", "BICYCLE", "CIM", "EXCHANGE", "TRAIN",
      "CULTURE", "PLACE", "FDROOM">>

Ev(kind, sec, data) == [kind |-> kind, sec |-> sec, data |-> data]
Outcome(ev, exc, sel) == [ev |-> ev, exc |-> exc, sel |-> sel]

\* A slip in the filter: only the first target compared.
isin_first(df, col, tg) ==
    SelectSeq(df, LAMBDA r : Cell(r, col) = tg[1])

\* df[df[col].isin(targets)]
isin(df, col, tg) ==
    SelectSeq(df, LAMBDA r : Cell(r, col) \in Range(tg))

ClosureSection(df, tg) ==
    LET head == <<Ev("subheader", "close", <<>>)>>
        show_c == isin(df, "SBWY_STNS_NM", tg)
    IN  IF "SBWY_STNS_NM" \notin columns(df) THEN Outcome(head, "none", <<>>)
        ELSE IF show_c = <<>>
        THEN Outcome(Append(head, Ev("info", "close", <<>>)), "none", show_c)
        ELSE IF ~(ClosureShown \subseteq columns(df))
        THEN Outcome(head, "KeyError", show_c)
        ELSE Outcome(Append(head, Ev("dataframe", "close",
                                     Project(show_c, ClosureShown))),
                     "none", show_c)

\* A slip in the status split: the usable rows kept instead.
BadRowsInverted(show_s) ==
    SelectSeq(show_s, LAMBDA r : Cell(r, "USE_YN") = Usable)

\* show_s[show_s["USE_YN"] != usable], line 103
BadRows(show_s) ==
    SelectSeq(show_s, LAMBDA r : Cell(r, "USE_YN") # Usable)

StatusSection(df, tg) ==
    LET head == <<Ev("subheader", "status", <<>>)>>
        show_s == isin(df, "STN_NM", tg)
        bad == BadRows(show_s)
    IN  IF "STN_NM" \notin columns(df) THEN Outcome(head, "none", <<>>)
        ELSE IF show_s = <<>>
        THEN Outcome(Append(head, Ev("info", "status", <<>>)), "none", show_s)
        ELSE IF "USE_YN" \notin columns(df)
        THEN Outcome(head, "KeyError", show_s)
        ELSE IF bad = <<>>
        THEN Outcome(Append(head, Ev("success", "status", <<>>)),
                     "none", show_s)
        ELSE IF ~(StatusShown \subseteq columns(df))
        THEN Outcome(Append(head, Ev("warning", "status", <<>>)),
                     "KeyError", show_s)
        ELSE Outcome(head \o <<Ev("warning", "status", <<>>),
                               Ev("dataframe", "status",
                                  Project(bad, StatusShown))>>,
                     "none", show_s)

DepthSection(df, tg) ==
    LET head == <<Ev("subheader", "depth", <<>>)>>
        show_d == isin(df, "SBWY_STNS_NM", tg)
        shown == Project(show_d, DepthShown)
        table == [i \in 1..Len(shown) |->
                    [shown[i] EXCEPT !["PLF_PBADMS"] = LengthCell(@)]]
    IN  IF "SBWY_STNS_NM" \notin columns(df) THEN Outcome(head, "none", <<>>)
        ELSE IF show_d = <<>>
        THEN Outcome(Append(head, Ev("info", "depth", <<>>)), "none", show_d)
        ELSE IF ~(DepthShown \subseteq columns(df))
        THEN Outcome(head, "KeyError", show_d)
        ELSE IF \E i \in 1..Len(table) :
                   table[i]["PLF_PBADMS"] = ValueError
        THEN Outcome(head, "ValueError", show_d)
        ELSE Outcome(Append(head, Ev("dataframe", "depth", table)),
                     "none", show_d)

ConvSection(df, tg) ==
    LET head == <<Ev("subheader", "conv", <<>>)>>
        show_v == isin(df, "STATION_NAME", tg)
        avail == SelectSeq(AmenityCodes, LAMBDA c : Cell(show_v[1], c) = Yes)
    IN  IF "STATION_NAME" \notin columns(df) THEN Outcome(head, "none", <<>>)
        ELSE IF show_v = <<>>
        THEN Outcome(Append(head, Ev("info", "conv", <<>>)), "none", show_v)
        ELSE Outcome(Append(head, Ev("write", "conv", avail)), "none", show_v)

Section(t, df, tg) ==
    CASE t = 1 -> ClosureSection(df, tg)
      [] t = 2 -> StatusSection(df, tg)
      [] t = 3 -> DepthSection(df, tg)
      [] t = 4 -> ConvSection(df, tg)

\* Sections t..4 run in turn; an exception ends the pass.
RECURSIVE Sections(_, _, _)
Sections(t, dfs, tg) ==
    IF t > 4 THEN Outcome(<<>>, "none", <<>>)
    ELSE LET one == Section(t, dfs[t], tg)
             rest == Sections(t + 1, dfs, tg)
         IN  IF one.exc # "none"
             THEN Outcome(one.ev, one.exc, <<one.sel>>)
             ELSE Outcome(one.ev \o rest.ev, rest.exc, <<one.sel>> \o rest.sel)

(***************************************************************************)
(* One script run for the text q in the input box, lines 68-134.  Within   *)
(* the session specifications the clock stands still: they explore one     *)
(* time-to-live window; expiry is explored by SpecCache.                   *)
(***************************************************************************)
Pass(q) ==
    IF q = <<>>
    THEN /\ query' = q
         /\ key' = <<>> /\ nmap' = <<>> /\ path' = "none"
         /\ targets' = <<>> /\ show' = <<>>
         /\ rendered' = <<>>
         /\ raised' = "none"
         /\ UNCHANGED <<upstream, cache>>
         /\ OnlySession
    ELSE LET hit == CacheFresh(cache, now)
             dfs == IF hit THEN cache.bundle ELSE upstream
         IN  \E m \in build_map(dfs) :
               LET k == norm(q)
                   found == Resolve(m, k)
                   tg == found.targets
                   body == Sections(1, dfs, tg)
               IN  /\ query' = q
                   /\ cache' = IF hit THEN cache
                               ELSE [stamp |-> now, bundle |-> upstream]
                   /\ key' = k
                   /\ nmap' = m
                   /\ path' = found.path
                   /\ targets' = tg
                   /\ IF NotFound(tg)
                      THEN /\ rendered' = <<Ev("error", "query", <<>>)>>
                           /\ show' = <<>>
                           /\ raised' = "stop"
                      ELSE /\ rendered' = <<Ev("success", "query", tg)>>
                                             \o body.ev
                           /\ show' = body.sel
                           /\ raised' = body.exc
                   /\ UNCHANGED upstream
                   /\ OnlySession

(***************************************************************************)
(* Upstream data the session specifications start from.  A row of table t  *)
(* carries its station name, the attribute its section inspects (USE_YN,   *)
(* PLF_PBADMS, EL) and the other elements its section shows, less the      *)
(* elements in `missing`.                                                  *)
(***************************************************************************)
NameCol(t) ==
    CASE t = 1 -> "SBWY_STNS_NM" [] t = 2 -> "STN_NM"
      [] t = 3 -> "SBWY_STNS_NM" [] t = 4 -> "STATION_NAME"

AttrCol(t) ==
    CASE t = 1 -> "CLSG_PLC" [] t = 2 -> "USE_YN"
      [] t = 3 -> "PLF_PBADMS" [] t = 4 -> "EL"

TableCols(t) ==
    CASE t = 1 -> {"SBWY_STNS_NM"} \cup ClosureShown
      [] t = 2 -> {"STN_NM"} \cup StatusShown
      [] t = 3 -> {"SBWY_STNS_NM"} \cup DepthShown
      [] t = 4 -> {"STATION_NAME"} \cup Range(AmenityCodes)

FifteenMetres == <<"1", "5", "0", "0", "0">>

DefaultAttr(t) ==
    CASE t = 1 -> Filler [] t = 2 -> Usable
      [] t = 3 -> FifteenMetres [] t = 4 -> Yes

Row(t, nm, attr, missing) ==
    [c \in TableCols(t) \ missing |->
        IF c = NameCol(t) THEN nm
        ELSE IF c = AttrCol(t) THEN attr
        ELSE IF t = 4 THEN No ELSE Filler]

\* Bundles of four tables with n[t] rows in table t, rows drawn from R[t].
Bundles(R, n) ==
    {<<a, b, c, d>> : a \in [1..n[1] -> R[1]], b \in [1..n[2] -> R[2]],
                      c \in [1..n[3] -> R[3]], d \in [1..n[4] -> R[4]]}

RowCounts(most) ==
    {n \in [1..4 -> 0..most] : n[1] + n[2] + n[3] + n[4] <= most}

\* Spellings: one station spelt bare and with a line suffix, another with
\* the station suffix; every row complete.
StationNames == {<<"s">>, <<"s", "(", "2", ")">>, <<"t", SuffixChar>>}
SpelledRows ==
    [t \in 1..4 |-> {Row(t, nm, DefaultAttr(t), {}) :
                        nm \in StationNames \cup {NULL}}]

\* The end-to-end scenario: one station in all four tables, its spelling
\* differing by a parenthesized line suffix; and the empty upstream.
EndToEnd ==
    <<<<Row(1, <<"s">>, DefaultAttr(1), {})>>,
      <<Row(2, <<"s", "(", "2", ")">>, DefaultAttr(2), {})>>,
      <<Row(3, <<"s", "(", "2", ")">>, DefaultAttr(3), {})>>,
      <<Row(4, <<"s">>, DefaultAttr(4), {})>>>>
NoRows == <<<<>>, <<>>, <<>>, <<>>>>
Queries == {<<>>, <<"s">>, <<"s", SuffixChar>>, <<"t", "s">>, <<"z">>}

\* Schema drift: rows that lack an element, flags and lengths of each kind.
DriftNames == {<<"s">>, <<"t">>}
DriftAttrs(t) ==
    CASE t = 1 -> {Filler} [] t = 2 -> {Usable, Broken}
      [] t = 3 -> {FifteenMetres, <<"1", ".", "5">>, <<SuperTwo>>}
      [] t = 4 -> {Yes, No}
DriftMissing(t) ==
    CASE t = 1 -> {{}, {"RPLC_PATH"}}
      [] t = 2 -> {{}, {"USE_YN"}, {"INSTL_PSTN"}}
      [] t = 3 -> {{}, {"PLF_PBADMS"}}
      [] t = 4 -> {{}, {"EL"}}
DriftRows ==
    [t \in 1..4 |->
        {Row(t, nm, attr, miss) :
            nm \in DriftNames, attr \in DriftAttrs(t),
            miss \in DriftMissing(t)}
        \cup {Row(t, NULL, DefaultAttr(t), {NameCol(t)})}]
DriftQueries == {<<"s">>, <<"z">>}

\* Similar names: up to MaxKeys distinct station names over two letters,
\* all in the status table.
KeyTexts == Texts({"a", "b"}, MaxKeyLen) \ {<<>>}
QueryTexts == Texts({"a", "b"}, MaxQueryLen) \ {<<>>}
SortedNames ==
    UNION {{f \in [1..k -> KeyTexts] :
               \A i \in 1..k, j \in 1..k : i < j => TextLess(f[i], f[j])} :
           k \in 0..MaxKeys}
StatusOnly(names) ==
    <<<<>>, [i \in 1..Len(names) |-> Row(2, names[i], Usable, {})],
      <<>>, <<>>>>

SessionStart ==
    /\ query = <<>> /\ key = <<>> /\ nmap = <<>> /\ path = "idle"
    /\ targets = <<>> /\ show = <<>> /\ rendered = <<>> /\ raised = "idle"

Query == \E q \in Queries : Pass(q)
QueryDrift == \E q \in DriftQueries : Pass(q)
\* The first query of a session, over every short text of the two letters.
QuerySimilar == raised = "idle" /\ \E q \in QueryTexts : Pass(q)

(***************************************************************************)
(* Specifications of the parts modelled so far.                            *)
(***************************************************************************)
SessionIdle ==
    /\ upstream = <<>> /\ query = <<>> /\ key = <<>> /\ nmap = <<>>
    /\ path = "idle" /\ targets = <<>> /\ show = <<>>
    /\ rendered = <<>> /\ raised = "idle"

InitFetch == FetchInit /\ NormIdle /\ LengthIdle /\ CacheIdle /\ SessionIdle
NextFetch == FetchFirst \/ FetchPage \/ FetchReturn
SpecFetch == InitFetch /\ [][NextFetch]_vars

InitNorm == NormInit /\ FetchIdle /\ LengthIdle /\ CacheIdle /\ SessionIdle
NextNorm == NormOnce \/ NormTwice
SpecNorm == InitNorm /\ [][NextNorm]_vars

InitLength == LengthInit /\ FetchIdle /\ NormIdle /\ CacheIdle /\ SessionIdle
NextLength == ApplyLength
SpecLength == InitLength /\ [][NextLength]_vars

InitCache == CacheInit /\ FetchIdle /\ NormIdle /\ LengthIdle /\ SessionIdle
NextCache ==
    \/ Tick \/ UpstreamChange \/ LoadAllHit \/ LoadAllMiss
    \/ FetchDataset \/ FetchRaises \/ StoreAndReturn \/ ScriptEnd
SpecCache == InitCache /\ [][NextCache]_vars

\* Either base with up to MaxRows further rows, in any of the tables.
Init ==
    /\ \E base \in {NoRows, EndToEnd} :
       \E more \in UNION {Bundles(SpelledRows, n) : n \in RowCounts(MaxRows)} :
          upstream = [t \in 1..4 |-> base[t] \o more[t]]
    /\ SessionStart /\ CacheIdle /\ FetchIdle /\ NormIdle /\ LengthIdle
Next == Query
Spec == Init /\ [][Next]_vars

InitDrift ==
    /\ upstream \in
         UNION {Bundles(DriftRows, n) : n \in RowCounts(MaxDriftRows)}
    /\ SessionStart /\ CacheIdle /\ FetchIdle /\ NormIdle /\ LengthIdle
NextDrift == QueryDrift
SpecDrift == InitDrift /\ [][NextDrift]_vars

InitResolve ==
    /\ upstream \in {StatusOnly(names) : names \in SortedNames}
    /\ SessionStart /\ CacheIdle /\ FetchIdle /\ NormIdle /\ LengthIdle
NextResolve == QuerySimilar
SpecResolve == InitResolve /\ [][NextResolve]_vars

(***************************************************************************)
(* Properties.                                                             *)
(***************************************************************************)
SectionNames == <<"close", "status", "depth", "conv">>

\* A script run with a non-empty query has finished.
Ran == raised # "idle" /\ query # <<>>

\* The elements the section `sec` rendered, in order.
Rendered(sec) == SelectSeq(rendered, LAMBDA e : e.sec = sec)

Count(x, list) == Cardinality({i \in 1..Len(list) : list[i] = x})

\* C1: once fetch_xml_full has returned for a declared total >= 1, its
\* requests are <<1, 1>> followed by consecutive ranges in ascending order
\* that end at total, every row index 1..total lies in exactly one request,
\* no request ends beyond total, no additional request spans more than
\* chunk rows, and the rows collected are rows 1..total in order; with
\* total <= 1 the first request is the only one.
C1_FetchCoversTotal ==
    fpc = "done" =>
      /\ total <= 1 => Len(reqs) = 1
      /\ total >= 1 =>
           /\ reqs[1] = <<1, 1>>
           /\ \A i \in 1..Len(reqs) :
                reqs[i][1] <= reqs[i][2] /\ reqs[i][2] <= total
           /\ \A i \in 1..(Len(reqs) - 1) : reqs[i + 1][1] = reqs[i][2] + 1
           /\ reqs[Len(reqs)][2] = total
           /\ \A r \in 1..total :
                Cardinality({i \in 1..Len(reqs) :
                               reqs[i][1] <= r /\ r <= reqs[i][2]}) = 1
           /\ \A i \in 2..Len(reqs) : reqs[i][2] - reqs[i][1] + 1 <= chunk
           /\ rows = [i \in 1..total |-> i]

\* Seven rows fetched three at a time: 1-1, 2-4, 5-7.
C1_Witness ==
    fpc = "done" /\ total = 7 /\ chunk = 3
    /\ reqs = <<<<1, 1>>, <<2, 4>>, <<5, 7>>>>

\* C2: a bundle load_all returns holds the four tables in order, all of one
\* fetch round, and is the stored bundle; a returning call issued either no
\* request or four, the four being of the current round and stored at the
\* time of return.  While the stored bundle is younger than 3600 s no step
\* issues a request or changes the stored bundle, and a call returns it.  A
\* call made with nothing stored, or with the stored bundle 3600 s old or
\* older, starts a new round with nothing fetched yet.
C2_CacheContract ==
    /\ [](lpc = "returned" =>
            /\ Len(ret) = 4
            /\ \A i \in 1..4 : ret[i].endpoint = Endpoints[i]
            /\ \A i, j \in 1..4 : ret[i].round = ret[j].round
            /\ ret = cache.bundle
            /\ net \in {0, 4}
            /\ net = 4 => ret[1].round = round /\ cache.stamp = now)
    /\ [][(lpc = "idle" /\ cache # NONE /\ now - cache.stamp < 3600) =>
            /\ lpc' \in {"idle", "returned"}
            /\ net' = 0
            /\ cache' = cache
            /\ lpc' = "returned" => ret' = cache.bundle]_vars
    /\ [][(lpc = "idle" /\ (cache = NONE \/ now - cache.stamp >= 3600)
           /\ lpc' # "idle") =>
            /\ lpc' = "fetching"
            /\ partial' = <<>>
            /\ net' = 0
            /\ round' = round + 1]_vars

\* The second round: a re-fetch an hour or more after the session began.
C2_Witness ==
    lpc = "returned" /\ net = 4 /\ round = 2 /\ cache.stamp >= 3600
    /\ \A i \in 1..4 : ret[i].round = 2

\* C3: norm applied to the result of norm returns that result.
C3_NormIdempotent == npc = "twice" => twice = once

\* An input with a parenthesis and the suffix character that norm changes
\* into a non-empty text.
C3_Witness ==
    /\ npc = "twice"
    /\ "(" \in Range(name) /\ SuffixChar \in Range(name)
    /\ once # name /\ once # <<>>

\* C4: after a pass, every non-null station name in a name column of any of
\* the four tables lies in exactly one list of the Name Map, once, under the
\* key norm of it; no list is empty; and when the normalized query is a key
\* the resolver took the exact branch and the targets are exactly the names
\* that normalize to it, each once.
C4_NameMapPartition ==
    Ran =>
      LET dfs == cache.bundle
          names == UNION {UNION {{dfs[t][i][c] :
                                    c \in NameColumns \cap DOMAIN dfs[t][i]} :
                                 i \in 1..Len(dfs[t])} : t \in 1..4} \ {NULL}
      IN  /\ \A r \in names :
                /\ Cardinality({k \in DOMAIN nmap :
                                  r \in Range(nmap[k])}) = 1
                /\ norm(r) \in DOMAIN nmap
                /\ Count(r, nmap[norm(r)]) = 1
          /\ \A k \in DOMAIN nmap :
                nmap[k] # <<>> /\ Range(nmap[k]) \subseteq names
          /\ key \in DOMAIN nmap =>
                /\ path = "exact"
                /\ Range(targets) = {r \in names : norm(r) = key}
                /\ Len(targets) = Cardinality(Range(targets))

\* Two spellings of the queried station under one key, beside another key.
C4_Witness ==
    /\ Ran /\ path = "exact"
    /\ Len(targets) = 2
    /\ Cardinality(DOMAIN nmap) = 2

\* C5: after a pass whose normalized query is not a key: if some key has a
\* ratio of at least 0.4 to it, the targets are the list of a key whose
\* ratio is at least 0.4 and not below any key's; otherwise they are empty.
\* The targets are empty exactly when the query is not a key and every
\* key's ratio is below 0.4.
C5_FuzzyFallback ==
    Ran =>
      LET sim == [k \in DOMAIN nmap |-> Ratio(k, key)]
          clears(k) == 5 * sim[k].num >= 2 * sim[k].den
          best(k) == \A j \in DOMAIN nmap :
                        sim[j].num * sim[k].den <= sim[k].num * sim[j].den
      IN  /\ key \notin DOMAIN nmap =>
                IF \E k \in DOMAIN nmap : clears(k)
                THEN \E k \in DOMAIN nmap :
                        targets = nmap[k] /\ clears(k) /\ best(k)
                ELSE targets = <<>>
          /\ targets = <<>> <=>
                (key \notin DOMAIN nmap /\ \A k \in DOMAIN nmap : ~clears(k))

\* A fuzzy match that sits exactly on the threshold (ratio 2/5), chosen
\* over another key.
C5_Witness ==
    /\ Ran /\ path = "fuzzy"
    /\ Cardinality(DOMAIN nmap) = 2
    /\ \E k \in DOMAIN nmap :
          targets = nmap[k] /\ 5 * Ratio(k, key).num = 2 * Ratio(k, key).den

\* C6: after a pass whose targets are empty only the not-found message is
\* rendered, no section ran, and the pass ended by st.stop, not by an
\* exception; and a later pass whose query resolves uses the same cached
\* tables and renders the success line and all four sections: each its
\* header, and its table or notice when the table has its name column.
C6_NotFoundHandled ==
    /\ []((Ran /\ targets = <<>>) =>
            /\ rendered = <<Ev("error", "query", <<>>)>>
            /\ show = <<>>
            /\ raised = "stop")
    /\ [][(Ran /\ targets = <<>> /\ query' # <<>> /\ targets' # <<>>) =>
            /\ cache' = cache
            /\ raised' = "none"
            /\ Head(rendered') = Ev("success", "query", targets')
            /\ Len(show') = 4
            /\ \A t \in 1..4 :
                  LET sec == SectionNames[t]
                      evs == SelectSeq(rendered', LAMBDA e : e.sec = sec)
                  IN  /\ Head(evs) = Ev("subheader", sec, <<>>)
                      /\ Len(evs) > 1 <=>
                            NameCol(t) \in columns(cache.bundle[t])]_vars

\* A query that matches none of the stations the tables hold.
C6_Witness ==
    Ran /\ targets = <<>> /\ path = "none" /\ DOMAIN nmap # {}

\* C7, as claimed: when a column that a section reads is absent from its
\* table, a pass that resolved does not end in a KeyError and all four
\* sections are run.
C7_AbsentColumnSkips ==
    (/\ Ran /\ targets # <<>>
     /\ \E t \in 1..4 : ~(TableCols(t) \subseteq columns(cache.bundle[t])))
    => (raised # "KeyError" /\ (raised = "none" => Len(show) = 4))

\* The rows of the status table whose station name is among the targets.
StatusMatches ==
    SelectSeq(cache.bundle[2],
              LAMBDA r : "STN_NM" \in DOMAIN r /\ r["STN_NM"] \in Range(targets))

\* Those of them whose flag is not the usable marker.
StatusUnusable ==
    SelectSeq(StatusMatches,
              LAMBDA r : "USE_YN" \notin DOMAIN r \/ r["USE_YN"] # Usable)

\* C8, as claimed: in a pass that completed over a status table with all
\* its columns, the non-usable matching rows are shown if there are any,
\* and otherwise the all-clear notice is shown.
C8_AllClearOtherwise ==
    (/\ Ran /\ targets # <<>> /\ raised = "none"
     /\ TableCols(2) \subseteq columns(cache.bundle[2]))
    => IF StatusUnusable # <<>>
       THEN Ev("dataframe", "status", Project(StatusUnusable, StatusShown))
              \in Range(rendered)
       ELSE Ev("success", "status", <<>>) \in Range(rendered)

\* C8, amended: when the status section runs with the name column present:
\* with no matching row it renders the no-information notice; with
\* matching rows all usable, the all-clear notice; with a non-usable
\* matching row, a warning and then exactly the non-usable rows; except
\* that with matching rows it raises KeyError instead when the flag column
\* is absent, or after the warning when a shown column is absent.
C8_StatusSplit ==
    (/\ Ran /\ targets # <<>> /\ Len(show) >= 2
     /\ "STN_NM" \in columns(cache.bundle[2]))
    => LET cols == columns(cache.bundle[2])
           head == Ev("subheader", "status", <<>>)
           warn == Ev("warning", "status", <<>>)
           ends == Len(show) = 2 /\ raised = "KeyError"
       IN  /\ show[2] = StatusMatches
           /\ IF StatusMatches = <<>>
              THEN Rendered("status") = <<head, Ev("info", "status", <<>>)>>
              ELSE IF "USE_YN" \notin cols
              THEN Rendered("status") = <<head>> /\ ends
              ELSE IF StatusUnusable = <<>>
              THEN Rendered("status")
                     = <<head, Ev("success", "status", <<>>)>>
              ELSE IF ~(StatusShown \subseteq cols)
              THEN Rendered("status") = <<head, warn>> /\ ends
              ELSE Rendered("status")
                     = <<head, warn,
                         Ev("dataframe", "status",
                            Project(StatusUnusable, StatusShown))>>

\* Two matching rows, one usable and one not: only the latter is shown.
C8_Witness ==
    /\ Ran /\ Len(show) >= 2 /\ Len(show[2]) = 2
    /\ Len(StatusUnusable) = 1
    /\ \E e \in Range(rendered) :
          e.kind = "dataframe" /\ e.sec = "status" /\ Len(e.data) = 1

\* A text of decimal digits.
Numeric(x) ==
    x # NULL /\ x # <<>> /\ \A i \in 1..Len(x) : x[i] \in DecimalChars

\* C9, as claimed: the length lambda never raises; a numeric text renders
\* as its value divided by 1000 with the unit, anything else as the
\* placeholder.
C9_LengthNeverRaises ==
    out.kind # "pending" =>
      /\ out # ValueError
      /\ Numeric(v) => out = Metres(IntValue(v) \div 1000)
      /\ ~Numeric(v) => out = Placeholder

\* The key whose list the resolver returned.
ResolvedKey == CHOOSE k \in DOMAIN nmap : nmap[k] = targets

\* The rows of table t whose station name is non-null and normalizes to k.
RowsOfStation(t, k) ==
    SelectSeq(cache.bundle[t],
              LAMBDA r : /\ NameCol(t) \in DOMAIN r
                         /\ r[NameCol(t)] # NULL
                         /\ norm(r[NameCol(t)]) = k)

\* C10: after a pass that resolved, exactly or by fuzzy match, to a key k,
\* the rows each section selected from a table that has its name column are
\* exactly that table's rows whose name is non-null and normalizes to k;
\* and when every table has a row of the queried station, all four
\* selections are non-empty.
C10_RowsOfResolvedStation ==
    (Ran /\ targets # <<>>) =>
      /\ path \in {"exact", "fuzzy"}
      /\ \E k \in DOMAIN nmap : nmap[k] = targets
      /\ \A t \in 1..Len(show) :
            NameCol(t) \in columns(cache.bundle[t]) =>
               show[t] = RowsOfStation(t, ResolvedKey)
      /\ (\A t \in 1..4 : RowsOfStation(t, norm(query)) # <<>>) =>
            (Len(show) = 4 /\ \A t \in 1..4 : show[t] # <<>>)

\* The station queried by its bare name, found in all four tables under
\* two spellings.
C10_Witness ==
    /\ Ran /\ query = <<"s">> /\ Len(targets) = 2
    /\ Len(show) = 4 /\ \A t \in 1..4 : show[t] # <<>>
    /\ \E t \in 1..4 : Len(show[t]) < Len(cache.bundle[t])

=============================================================================
